---------------------------- MODULE Spec2Model ----------------------------
(***************************************************************************)
(* A model of the dist-info locator of install-wheel-rs (find_dist_info,   *)
(* is_metadata_entry), of ResolutionStrategy::from_mode of uv-resolver,    *)
(* of the `pip list` runs recorded in crates/uv/tests/pip_list.rs, and of  *)
(* the record check of the installer.                                      *)
(*                                                                         *)
(* Text is modelled as a sequence of one-character strings, so that the    *)
(* splitting, suffix stripping, normalisation and parsing of the code are  *)
(* computed character by character.                                        *)
(***************************************************************************)
EXTENDS Integers, Sequences, FiniteSets, TLC

VARIABLES
    pc,          \* position of the operation under check
    wheel,       \* the wheel's file name, as text
    filename,    \* the parsed WheelFilename
    files,       \* the (payload, path) pairs handed to find_dist_info
    metadatas,   \* find_dist_info's local: the entries filter_map kept
    result,      \* what find_dist_info returned
    is_metadata, \* what is_metadata_entry returned for each path of `files`
    mode,        \* ResolutionMode
    manifest,    \* Manifest: requirements and editables
    strategy,    \* the ResolutionStrategy built by from_mode
    installed,   \* the packages installed in the virtual environment
    args,        \* the arguments of `pip list`
    stdout,      \* the lines `pip list` printed
    exit_code,   \* its exit code
    archive,     \* the wheel's entries: path and bytes
    record,      \* the wheel's RECORD: path, hash, size
    corrupted,   \* the index of the entry with a corrupted byte, or 0
    cursor,      \* the next archive entry to place
    disk,        \* the paths present in the target environment
    report,      \* the install report: paths written, in order
    outcome,     \* what install returned
    zip,         \* the ZipArchive handed to read_dist_info: its entries
    opened,      \* the names archive.by_name was called with, in order
    returned     \* what read_dist_info returned

vars == <<pc, wheel, filename, files, metadatas, result, is_metadata,
          mode, manifest, strategy,
          installed, args, stdout, exit_code,
          archive, record, corrupted, cursor, disk, report, outcome,
          zip, opened, returned>>

distInfoVars == <<wheel, filename, files, metadatas, result, is_metadata>>
strategyVars == <<mode, manifest, strategy>>
pipListVars == <<installed, args, stdout, exit_code>>
installVars == <<archive, record, corrupted, cursor, disk, report, outcome>>
readVars == <<zip, opened, returned>>

(***************************************************************************)
(* Bounds of the model.                                                    *)
(***************************************************************************)
\* The longest file list handed to find_dist_info (besides the test's list).
MaxFiles == 3
\* The longest list of requirements (of a manifest, of an editable).
MaxRequirements == 2
\* The most editables of a manifest.
MaxEditables == 2
\* The most files of a wheel, besides its RECORD.
MaxEntries == 2

(***************************************************************************)
(* Text: characters, Option, and the std string functions the code calls.  *)
(***************************************************************************)
UpperChars == <<"A","B","C","D","E","F","G","H","I","J","K","L","M","N","O","P","Q","R","S","T","U","V","W","X","Y","Z">>
LowerChars == <<"a","b","c","d","e","f","g","h","i","j","k","l","m","n","o","p","q","r","s","t","u","v","w","x","y","z">>
DigitChars == <<"0","1","2","3","4","5","6","7","8","9">>

Range(s) == { s[i] : i \in 1..Len(s) }

UpperSet == Range(UpperChars)
DigitSet == Range(DigitChars)

None == <<>>
Some(x) == <<x>>

\* char::to_ascii_lowercase
to_ascii_lowercase(c) ==
    IF c \in UpperSet
    THEN LowerChars[CHOOSE i \in 1..Len(UpperChars) : UpperChars[i] = c]
    ELSE c

\* The value of a decimal digit.
DigitValue(c) == (CHOOSE i \in 1..Len(DigitChars) : DigitChars[i] = c) - 1

\* str::split_once(c): the text before and after the FIRST c.
split_once(s, c) ==
    IF c \notin Range(s) THEN None
    ELSE LET i == CHOOSE k \in 1..Len(s) :
                      s[k] = c /\ \A j \in 1..(k - 1) : s[j] # c
         IN  Some(<<SubSeq(s, 1, i - 1), SubSeq(s, i + 1, Len(s))>>)

\* str::rsplit_once(c): the text before and after the LAST c.
rsplit_once(s, c) ==
    IF c \notin Range(s) THEN None
    ELSE LET i == CHOOSE k \in 1..Len(s) :
                      s[k] = c /\ \A j \in (k + 1)..Len(s) : s[j] # c
         IN  Some(<<SubSeq(s, 1, i - 1), SubSeq(s, i + 1, Len(s))>>)

\* str::strip_suffix(suffix)
strip_suffix(s, suffix) ==
    IF Len(s) >= Len(suffix)
       /\ SubSeq(s, Len(s) - Len(suffix) + 1, Len(s)) = suffix
    THEN Some(SubSeq(s, 1, Len(s) - Len(suffix)))
    ELSE None

\* str::split(c): every part between two c's.
RECURSIVE split(_, _)
split(s, c) ==
    LET sp == split_once(s, c)
    IN  IF sp = None THEN <<s>> ELSE <<sp[1][1]>> \o split(sp[1][2], c)

\* [String]::join(sep)
RECURSIVE join(_, _)
join(parts, sep) ==
    IF Len(parts) = 0 THEN <<>>
    ELSE IF Len(parts) = 1 THEN parts[1]
    ELSE parts[1] \o sep \o join(Tail(parts), sep)

(***************************************************************************)
(* The types the locator reads from other crates: PackageName              *)
(* (uv-normalize), Version (pep440_rs) and WheelFilename                   *)
(* (distribution-filename).  They are crates of their own and are modelled  *)
(* from the specification:             a normalised name is lowercase     *)
(* with every run of '-', '_', '.' collapsed to one '-'; a version is PEP  *)
(* 440 conformant (here: its release segment, N(.N)*, two versions being   *)
(* equal when they differ only by trailing zero components); a wheel file  *)
(* name is `{name}-{version}(-{build})?-{py}-{abi}-{plat}.whl`.            *)
(***************************************************************************)
SeparatorChars == {"-", "_", "."}
AlnumChars == UpperSet \cup Range(LowerChars) \cup DigitSet

\* One pass over the name: lowercase each letter, write one '-' for each run
\* of separators; `last` is the previous character (<<>> at the start).
RECURSIVE NormalizeFrom(_, _, _, _)
NormalizeFrom(name, i, last, acc) ==
    IF i > Len(name)
    THEN IF last = None \/ last[1] \in SeparatorChars THEN None ELSE Some(acc)
    ELSE LET c == name[i]
         IN  IF c \in AlnumChars
             THEN NormalizeFrom(name, i + 1, Some(c),
                                Append(acc, to_ascii_lowercase(c)))
             ELSE IF c \in SeparatorChars
             THEN IF last = None THEN None
                  ELSE IF last[1] \in SeparatorChars
                  THEN NormalizeFrom(name, i + 1, Some(c), acc)
                  ELSE NormalizeFrom(name, i + 1, Some(c), Append(acc, "-"))
             ELSE None

\* PackageName::from_str: Some(normalised name), or None for an invalid name
\* (empty, a character outside [A-Za-z0-9._-], a separator first or last).
PackageName_from_str(name) == NormalizeFrom(name, 1, None, <<>>)

\* The number a string of decimal digits denotes.
RECURSIVE DecimalValue(_)
DecimalValue(digits) ==
    IF Len(digits) = 0 THEN 0
    ELSE 10 * DecimalValue(SubSeq(digits, 1, Len(digits) - 1))
         + DigitValue(digits[Len(digits)])

\* A release without its trailing zero components: 1.0.0 is 1.
RECURSIVE TrimZeros(_)
TrimZeros(release) ==
    IF Len(release) > 0 /\ release[Len(release)] = 0
    THEN TrimZeros(SubSeq(release, 1, Len(release) - 1))
    ELSE release

\* Version::from_str: Some(version) with the release components as numbers,
\* or None when the text is not N(.N)*.
Version_from_str(text) ==
    LET parts == split(text, ".")
    IN  IF \A k \in 1..Len(parts) :
               Len(parts[k]) > 0 /\ Range(parts[k]) \subseteq DigitSet
        THEN Some([release |-> [k \in 1..Len(parts) |-> DecimalValue(parts[k])]])
        ELSE None

\* Version's PartialEq.
VersionEq(a, b) == TrimZeros(a.release) = TrimZeros(b.release)

WhlSuffix == <<".","w","h","l">>

\* WheelFilename::from_str: Some([name, version]) for
\* `{name}-{version}(-{build})?-{py}-{abi}-{plat}.whl`, None otherwise.
WheelFilename_from_str(text) ==
    LET stem == strip_suffix(text, WhlSuffix)
    IN  IF stem = None THEN None
        ELSE LET parts == split(stem[1], "-")
             IN  IF Len(parts) \notin {5, 6} THEN None
                 ELSE LET name == PackageName_from_str(parts[1])
                          version == Version_from_str(parts[2])
                      IN  IF name = None \/ version = None THEN None
                          ELSE Some([name |-> name[1], version |-> version[1]])

(***************************************************************************)
(* install-wheel-rs/src/lib.rs                                             *)
(***************************************************************************)
DistInfoSuffix == <<".","d","i","s","t","-","i","n","f","o">>
MetadataFile == <<"M","E","T","A","D","A","T","A">>
CommaSpace == <<",", " ">>

\* is_metadata_entry without the comparison of the version.
is_metadata_entry_any_version(path, fname) ==
    LET sp == split_once(path, "/")
        st == IF sp = None THEN None ELSE strip_suffix(sp[1][1], DistInfoSuffix)
        rs == IF st = None THEN None ELSE rsplit_once(st[1], "-")
    IN  /\ rs # None
        /\ sp[1][2] = MetadataFile
        /\ PackageName_from_str(rs[1][1]) # None
        /\ PackageName_from_str(rs[1][1])[1] = fname.name
        /\ Version_from_str(rs[1][2]) # None

\* is_metadata_entry(path, filename): true iff the file is a METADATA file in
\* a dist-info directory that matches the wheel filename.
is_metadata_entry(path, fname) ==
    LET sp == split_once(path, "/")
    IN  IF sp = None THEN FALSE
        ELSE LET dist_info_dir == sp[1][1]
                 file == sp[1][2]
             IN  IF file # MetadataFile THEN FALSE
                 ELSE LET st == strip_suffix(dist_info_dir, DistInfoSuffix)
                      IN  IF st = None THEN FALSE
                          ELSE LET rs == rsplit_once(st[1], "-")
                               IN  IF rs = None THEN FALSE
                                   ELSE LET name == PackageName_from_str(rs[1][1])
                                        IN  IF name = None THEN FALSE
                                            ELSE IF name[1] # fname.name THEN FALSE
                                            ELSE LET version == Version_from_str(rs[1][2])
                                                 IN  IF version = None THEN FALSE
                                                     ELSE IF ~VersionEq(version[1], fname.version) THEN FALSE
                                                     ELSE TRUE

\* The parts of an entry's path as the closure reads them: None, or
\* Some([file, dir_stem, name, version]) when the path has a '/', its
\* directory ends in `.dist-info` and the stem has a '-'.
EntryParts(path) ==
    LET sp == split_once(path, "/")
    IN  IF sp = None THEN None
        ELSE LET st == strip_suffix(sp[1][1], DistInfoSuffix)
             IN  IF st = None THEN None
                 ELSE LET rs == rsplit_once(st[1], "-")
                      IN  IF rs = None THEN None
                          ELSE Some([file |-> sp[1][2], dir_stem |-> st[1],
                                     name |-> rs[1][1], version |-> rs[1][2]])

NameMatches(text, fname) ==
    PackageName_from_str(text) # None /\ PackageName_from_str(text)[1] = fname.name

VersionMatches(text, fname) ==
    Version_from_str(text) # None /\ VersionEq(Version_from_str(text)[1], fname.version)

\* FilterEntry returning the normalised name and the version, not the stem
\* as spelled in the path.
FilterEntry_normalised_prefix(fname, entry) ==
    LET parts == EntryParts(entry[2])
    IN  IF parts # None /\ parts[1].file = MetadataFile
           /\ NameMatches(parts[1].name, fname)
           /\ VersionMatches(parts[1].version, fname)
        THEN Some(<<entry[1], fname.name \o <<"-">> \o parts[1].version>>)
        ELSE None

\* FilterEntry without the comparison of the name.
FilterEntry_no_name_check(fname, entry) ==
    LET parts == EntryParts(entry[2])
    IN  IF parts # None /\ parts[1].file = MetadataFile
           /\ PackageName_from_str(parts[1].name) # None
           /\ VersionMatches(parts[1].version, fname)
        THEN Some(<<entry[1], parts[1].dir_stem>>)
        ELSE None

\* FilterEntry comparing the name as spelled, without normalising it.
FilterEntry_case_sensitive(fname, entry) ==
    LET parts == EntryParts(entry[2])
    IN  IF parts # None /\ parts[1].file = MetadataFile
           /\ PackageName_from_str(parts[1].name) # None
           /\ parts[1].name = fname.name
           /\ VersionMatches(parts[1].version, fname)
        THEN Some(<<entry[1], parts[1].dir_stem>>)
        ELSE None

\* FilterEntry keeping every `{name}-{version}.dist-info/METADATA`, whatever
\* the name and the version.
FilterEntry_any_dist_info(fname, entry) ==
    LET parts == EntryParts(entry[2])
    IN  IF parts # None /\ parts[1].file = MetadataFile
           /\ PackageName_from_str(parts[1].name) # None
           /\ Version_from_str(parts[1].version) # None
        THEN Some(<<entry[1], parts[1].dir_stem>>)
        ELSE None

\* FilterEntry accepting any file whose path ends in METADATA.
FilterEntry_ends_with_METADATA(fname, entry) ==
    LET parts == EntryParts(entry[2])
    IN  IF parts # None /\ strip_suffix(parts[1].file, MetadataFile) # None
           /\ NameMatches(parts[1].name, fname)
           /\ VersionMatches(parts[1].version, fname)
        THEN Some(<<entry[1], parts[1].dir_stem>>)
        ELSE None

\* FilterEntry splitting the stem at its FIRST '-', not its last.
FilterEntry_split_first(fname, entry) ==
    LET sp == split_once(entry[2], "/")
        st == IF sp = None THEN None ELSE strip_suffix(sp[1][1], DistInfoSuffix)
        fs == IF st = None THEN None ELSE split_once(st[1], "-")
    IN  IF fs # None /\ sp[1][2] = MetadataFile
           /\ NameMatches(fs[1][1], fname)
           /\ VersionMatches(fs[1][2], fname)
        THEN Some(<<entry[1], st[1]>>)
        ELSE None

\* The closure find_dist_info hands to filter_map: Some((payload, dir_stem))
\* for an entry to keep, None for one to drop.
FilterEntry(fname, entry) ==
    LET payload == entry[1]
        path == entry[2]
        sp == split_once(path, "/")
    IN  IF sp = None THEN None
        ELSE LET dist_info_dir == sp[1][1]
                 file == sp[1][2]
             IN  IF file # MetadataFile THEN None
                 ELSE LET st == strip_suffix(dist_info_dir, DistInfoSuffix)
                      IN  IF st = None THEN None
                          ELSE LET dir_stem == st[1]
                                   rs == rsplit_once(dir_stem, "-")
                               IN  IF rs = None THEN None
                                   ELSE LET name == PackageName_from_str(rs[1][1])
                                            version == Version_from_str(rs[1][2])
                                        IN  IF name = None THEN None
                                            ELSE IF name[1] # fname.name THEN None
                                            ELSE IF version = None THEN None
                                            ELSE IF ~VersionEq(version[1], fname.version) THEN None
                                            ELSE Some(<<payload, dir_stem>>)

\* Iterator::filter_map(FilterEntry).collect()
RECURSIVE Metadatas(_, _)
Metadatas(fname, entries) ==
    IF Len(entries) = 0 THEN <<>>
    ELSE FilterEntry(fname, Head(entries)) \o Metadatas(fname, Tail(entries))

\* Result<(T, &str), Error>, as one record shape.
NoPayload == 0
NoResult == [kind |-> "none", payload |-> NoPayload, prefix |-> <<>>, msg |-> <<>>]
Ok(payload, prefix) ==
    [kind |-> "Ok", payload |-> payload, prefix |-> prefix, msg |-> <<>>]
MissingDistInfo ==
    [kind |-> "MissingDistInfo", payload |-> NoPayload, prefix |-> <<>>, msg |-> <<>>]
MultipleDistInfo(msg) ==
    [kind |-> "MultipleDistInfo", payload |-> NoPayload, prefix |-> <<>>, msg |-> msg]

\* MatchMetadatas naming only the first two candidates in the message.
MatchMetadatas_names_two(collected) ==
    IF Len(collected) = 0 THEN MissingDistInfo
    ELSE IF Len(collected) = 1 THEN Ok(collected[1][1], collected[1][2])
    ELSE MultipleDistInfo(collected[1][2] \o CommaSpace \o collected[2][2])

\* The match on metadatas[..]: none is MissingDistInfo, one is Ok, more are
\* MultipleDistInfo with the stems joined by ", ".
MatchMetadatas(collected) ==
    IF Len(collected) = 0 THEN MissingDistInfo
    ELSE IF Len(collected) = 1 THEN Ok(collected[1][1], collected[1][2])
    ELSE MultipleDistInfo(
             join([k \in 1..Len(collected) |-> collected[k][2]], CommaSpace))

\* find_dist_info(filename, files)
find_dist_info(fname, entries) == MatchMetadatas(Metadatas(fname, entries))

(***************************************************************************)
(* The inputs of the locator: wheel file names and archive paths.          *)
(***************************************************************************)
\* foo-1.0-py3-none-any.whl
W_foo == <<"f","o","o","-","1",".","0","-","p","y","3","-","n","o","n","e","-","a","n","y",".","w","h","l">>
\* Mastodon.py-1.5.1-py2.py3-none-any.whl (test_dot_in_name)
W_Mastodon == <<"M","a","s","t","o","d","o","n",".","p","y","-","1",".","5",".","1","-","p","y","2",".","p","y","3","-","n","o","n","e","-","a","n","y",".","w","h","l">>

\* foo-1.0.dist-info/METADATA
P_foo == <<"f","o","o","-","1",".","0",".","d","i","s","t","-","i","n","f","o","/","M","E","T","A","D","A","T","A">>
\* Foo-1.0.dist-info/METADATA
P_Foo == <<"F","o","o","-","1",".","0",".","d","i","s","t","-","i","n","f","o","/","M","E","T","A","D","A","T","A">>
\* foo-1.0.0.dist-info/METADATA
P_foo_100 == <<"f","o","o","-","1",".","0",".","0",".","d","i","s","t","-","i","n","f","o","/","M","E","T","A","D","A","T","A">>
\* foo-2.0.dist-info/METADATA
P_foo_20 == <<"f","o","o","-","2",".","0",".","d","i","s","t","-","i","n","f","o","/","M","E","T","A","D","A","T","A">>
\* bar-1.0.dist-info/METADATA
P_bar == <<"b","a","r","-","1",".","0",".","d","i","s","t","-","i","n","f","o","/","M","E","T","A","D","A","T","A">>
\* foo-1.0.dist-info/RECORD
P_foo_RECORD == <<"f","o","o","-","1",".","0",".","d","i","s","t","-","i","n","f","o","/","R","E","C","O","R","D">>
\* foo-1.0.dist-info/WHEEL
P_foo_WHEEL == <<"f","o","o","-","1",".","0",".","d","i","s","t","-","i","n","f","o","/","W","H","E","E","L">>
\* vendor/foo-1.0.dist-info/METADATA
P_vendored == <<"v","e","n","d","o","r","/","f","o","o","-","1",".","0",".","d","i","s","t","-","i","n","f","o","/","M","E","T","A","D","A","T","A">>
\* foo-1.0.dist-info/sub/METADATA
P_deeper == <<"f","o","o","-","1",".","0",".","d","i","s","t","-","i","n","f","o","/","s","u","b","/","M","E","T","A","D","A","T","A">>
\* METADATA
P_no_slash == <<"M","E","T","A","D","A","T","A">>
\* foo-1.0.data/METADATA
P_no_suffix == <<"f","o","o","-","1",".","0",".","d","a","t","a","/","M","E","T","A","D","A","T","A">>
\* foo.dist-info/METADATA
P_no_dash == <<"f","o","o",".","d","i","s","t","-","i","n","f","o","/","M","E","T","A","D","A","T","A">>
\* foo-x.dist-info/METADATA
P_bad_version == <<"f","o","o","-","x",".","d","i","s","t","-","i","n","f","o","/","M","E","T","A","D","A","T","A">>
\* _foo-1.0.dist-info/METADATA
P_bad_name == <<"_","f","o","o","-","1",".","0",".","d","i","s","t","-","i","n","f","o","/","M","E","T","A","D","A","T","A">>
\* Mastodon.py-1.5.1.dist-info/METADATA
P_Mastodon == <<"M","a","s","t","o","d","o","n",".","p","y","-","1",".","5",".","1",".","d","i","s","t","-","i","n","f","o","/","M","E","T","A","D","A","T","A">>
\* mastodon.-py-1.5.1.dist-info/METADATA
P_mastodon_run == <<"m","a","s","t","o","d","o","n",".","-","p","y","-","1",".","5",".","1",".","d","i","s","t","-","i","n","f","o","/","M","E","T","A","D","A","T","A">>
\* mastodon/__init__.py
P_mastodon_init == <<"m","a","s","t","o","d","o","n","/","_","_","i","n","i","t","_","_",".","p","y">>
\* mastodon/Mastodon.py
T_Mastodon_py == <<"m","a","s","t","o","d","o","n","/","M","a","s","t","o","d","o","n",".","p","y">>
\* mastodon/streaming.py
T_streaming == <<"m","a","s","t","o","d","o","n","/","s","t","r","e","a","m","i","n","g",".","p","y">>
\* Mastodon.py-1.5.1.dist-info/DESCRIPTION.rst
T_DESCRIPTION == <<"M","a","s","t","o","d","o","n",".","p","y","-","1",".","5",".","1",".","d","i","s","t","-","i","n","f","o","/","D","E","S","C","R","I","P","T","I","O","N",".","r","s","t">>
\* Mastodon.py-1.5.1.dist-info/metadata.json
T_metadata_json == <<"M","a","s","t","o","d","o","n",".","p","y","-","1",".","5",".","1",".","d","i","s","t","-","i","n","f","o","/","m","e","t","a","d","a","t","a",".","j","s","o","n">>
\* Mastodon.py-1.5.1.dist-info/top_level.txt
T_top_level == <<"M","a","s","t","o","d","o","n",".","p","y","-","1",".","5",".","1",".","d","i","s","t","-","i","n","f","o","/","t","o","p","_","l","e","v","e","l",".","t","x","t">>
\* Mastodon.py-1.5.1.dist-info/WHEEL
T_WHEEL == <<"M","a","s","t","o","d","o","n",".","p","y","-","1",".","5",".","1",".","d","i","s","t","-","i","n","f","o","/","W","H","E","E","L">>
\* Mastodon.py-1.5.1.dist-info/RECORD
T_RECORD == <<"M","a","s","t","o","d","o","n",".","p","y","-","1",".","5",".","1",".","d","i","s","t","-","i","n","f","o","/","R","E","C","O","R","D">>

WheelNames == {W_foo, W_Mastodon}

Paths ==
    {P_foo, P_Foo, P_foo_100, P_foo_20, P_bar, P_foo_RECORD, P_foo_WHEEL,
     P_vendored, P_deeper, P_no_slash, P_no_suffix, P_no_dash, P_bad_version,
     P_bad_name, P_Mastodon, P_mastodon_run}

\* The file list of test_dot_in_name.
TestDotInNamePaths ==
    <<T_Mastodon_py, P_mastodon_init, T_streaming, T_DESCRIPTION,
      T_metadata_json, T_top_level, T_WHEEL, P_Mastodon, T_RECORD>>

\* The payload of the i-th entry: one value per position, so that two
\* entries never share a payload.
Payload(i) == i

\* files.into_iter().map(|file| (payload, file))
Entries(paths) == [i \in 1..Len(paths) |-> <<Payload(i), paths[i]>>]

FileLists ==
    { Entries(ps) : ps \in UNION { [1..n -> Paths] : n \in 0..MaxFiles } }
        \cup {Entries(TestDotInNamePaths)}

(***************************************************************************)
(* Idle values of the variables each specification leaves alone.           *)
(***************************************************************************)
IdleDistInfo ==
    /\ wheel = <<>>
    /\ filename = [name |-> <<>>, version |-> [release |-> <<>>]]
    /\ files = <<>>
    /\ metadatas = <<>>
    /\ result = NoResult
    /\ is_metadata = <<>>

IdleStrategy ==
    /\ mode = "Highest"
    /\ manifest = [requirements |-> <<>>, editables |-> <<>>]
    /\ strategy = [kind |-> "none"]

IdlePipList ==
    /\ installed = {}
    /\ args = [editable |-> FALSE, exclude_editable |-> FALSE, exclude |-> {}]
    /\ stdout = <<>>
    /\ exit_code = -1

\* Result<Vec<u8>, Error> of read_dist_info, as one record shape.
NoFilename == [name |-> <<>>, version |-> [release |-> <<>>]]
NotReturned == [kind |-> "none", bytes |-> <<>>, msg |-> <<>>, filename |-> NoFilename]

IdleRead ==
    /\ zip = <<>>
    /\ opened = <<>>
    /\ returned = NotReturned

IdleInstall ==
    /\ archive = <<>>
    /\ record = <<>>
    /\ corrupted = 0
    /\ cursor = 0
    /\ disk = {}
    /\ report = <<>>
    /\ outcome = "none"

(***************************************************************************)
(* The locator as a state machine: the inputs are drawn, find_dist_info    *)
(* runs once.                                                              *)
(***************************************************************************)
InitDistInfo ==
    /\ pc = "ready"
    /\ wheel \in WheelNames
    /\ filename = WheelFilename_from_str(wheel)[1]
    /\ files \in FileLists
    /\ metadatas = <<>>
    /\ result = NoResult
    /\ is_metadata = <<>>
    /\ IdleStrategy /\ IdlePipList /\ IdleInstall /\ IdleRead

FindDistInfo ==
    /\ pc = "ready"
    /\ metadatas' = Metadatas(filename, files)
    /\ result' = find_dist_info(filename, files)
    /\ pc' = "done"
    /\ UNCHANGED <<wheel, filename, files, is_metadata>>
    /\ UNCHANGED <<strategyVars, pipListVars, installVars, readVars>>

NextDistInfo == FindDistInfo

SpecDistInfo == InitDistInfo /\ [][NextDistInfo]_vars

(***************************************************************************)
(* What the claims about the locator speak of.                             *)
(***************************************************************************)
\* The name N normalised: every letter lowercased, every separator written
\* '-', and a '-' that follows a '-' left out.
Dashed(N) ==
    [i \in 1..Len(N) |->
        IF N[i] \in SeparatorChars THEN "-" ELSE to_ascii_lowercase(N[i])]

RECURSIVE WithoutRepeatedDash(_, _)
WithoutRepeatedDash(D, i) ==
    IF i > Len(D) THEN <<>>
    ELSE IF i > 1 /\ D[i] = "-" /\ D[i - 1] = "-"
    THEN WithoutRepeatedDash(D, i + 1)
    ELSE <<D[i]>> \o WithoutRepeatedDash(D, i + 1)

ValidName(N) ==
    /\ Len(N) > 0
    /\ Range(N) \subseteq AlnumChars \cup SeparatorChars
    /\ N[1] \in AlnumChars
    /\ N[Len(N)] \in AlnumChars

NameIs(N, name) == ValidName(N) /\ WithoutRepeatedDash(Dashed(N), 1) = name

VersionIs(V, version) ==
    /\ Version_from_str(V) # None
    /\ VersionEq(Version_from_str(V)[1], version)

\* `{stem}.dist-info/METADATA`, with no '/' in the stem.
TailLen == Len(DistInfoSuffix) + 1 + Len(MetadataFile)
TopLevelMetadata(path) ==
    /\ Len(path) >= TailLen
    /\ SubSeq(path, Len(path) - TailLen + 1, Len(path))
           = DistInfoSuffix \o <<"/">> \o MetadataFile
    /\ "/" \notin Range(SubSeq(path, 1, Len(path) - TailLen))

StemOf(path) == SubSeq(path, 1, Len(path) - TailLen)

\* The entry is `{N}-{V}.dist-info/METADATA` for some N that is the name and
\* some V that denotes the version.
Matches(path, fname) ==
    /\ TopLevelMetadata(path)
    /\ \E d \in 1..Len(StemOf(path)) :
          /\ StemOf(path)[d] = "-"
          /\ NameIs(SubSeq(StemOf(path), 1, d - 1), fname.name)
          /\ VersionIs(SubSeq(StemOf(path), d + 1, Len(StemOf(path))), fname.version)

\* Every path of the inputs, and for each wheel the paths that match it.
AllPaths == Paths \cup Range(TestDotInNamePaths)
TopLevelMetadataPaths == { p \in AllPaths : TopLevelMetadata(p) }
MatchingPaths ==
    [w \in WheelNames |->
        { p \in AllPaths : Matches(p, WheelFilename_from_str(w)[1]) }]

Matching == { i \in DOMAIN files : files[i][2] \in MatchingPaths[wheel] }

\* The i-th entry is among the candidates the locator collected.
Kept(i) == \E k \in DOMAIN metadatas : metadatas[k][1] = files[i][1]

\* The stems of the entries matching wheel `fname`, in the order of the file
\* list.
RECURSIVE MatchingStems(_, _)
MatchingStems(entries, fname) ==
    IF Len(entries) = 0 THEN <<>>
    ELSE (IF Head(entries)[2] \in MatchingPaths[fname]
          THEN <<StemOf(Head(entries)[2])>> ELSE <<>>)
         \o MatchingStems(Tail(entries), fname)

\* C1: when more than one entry matches the filename, the result is
\* MultipleDistInfo and its message lists the stem of every matching entry,
\* in the order of the file list, joined with ", ".
C1_MultipleListsAll ==
    (pc = "done" /\ Cardinality(Matching) > 1) =>
        /\ result.kind = "MultipleDistInfo"
        /\ result.msg = join(MatchingStems(files, wheel), CommaSpace)

\* foo-1.0.dist-info and Foo-1.0.dist-info for foo-1.0: "foo-1.0, Foo-1.0".
C1_Witness ==
    /\ pc = "done"
    /\ wheel = W_foo
    /\ files = Entries(<<P_foo, P_Foo>>)
    /\ result = MultipleDistInfo(<<"f","o","o","-","1",".","0",",",
                                   " ","F","o","o","-","1",".","0">>)

\* C2: when exactly one entry matches the filename, the result is Ok with
\* that entry's payload and its directory name without `.dist-info`, spelled
\* as in the path.
C2_SingleMatchIsOk ==
    (pc = "done" /\ Cardinality(Matching) = 1) =>
        \A i \in Matching : result = Ok(files[i][1], StemOf(files[i][2]))

\* test_dot_in_name: the prefix is Mastodon.py-1.5.1, the payload the 8th.
C2_Witness ==
    /\ pc = "done"
    /\ wheel = W_Mastodon
    /\ files = Entries(TestDotInNamePaths)
    /\ result = Ok(Payload(8), <<"M","a","s","t","o","d","o","n",".","p","y",
                                 "-","1",".","5",".","1">>)

\* C3: when no entry matches the filename (the empty list included), the
\* result is MissingDistInfo.
C3_NoMatchIsMissing ==
    (pc = "done" /\ Matching = {}) => result = MissingDistInfo

\* Dist-info directories of another name and of another version only.
C3_Witness ==
    /\ pc = "done"
    /\ wheel = W_foo
    /\ files = Entries(<<P_bar, P_foo_20, P_Mastodon>>)
    /\ result.kind = "MissingDistInfo"

\* Two texts that differ in letter case only.
SameUpToCase(a, b) ==
    /\ Len(a) = Len(b)
    /\ \A k \in 1..Len(a) : to_ascii_lowercase(a[k]) = to_ascii_lowercase(b[k])

\* C4: an entry `{N}-{V}.dist-info/METADATA` is kept iff N is the filename's
\* name after normalisation and V denotes the filename's version; two such
\* entries whose stems differ in letter case only are kept or dropped
\* together.
C4_NameByNormalisationVersionStrict ==
    pc = "done" =>
        /\ \A i \in DOMAIN files :
              files[i][2] \in TopLevelMetadataPaths =>
                  (Kept(i) <=> files[i][2] \in MatchingPaths[wheel])
        /\ \A i, j \in DOMAIN files :
              (/\ files[i][2] \in TopLevelMetadataPaths
               /\ files[j][2] \in TopLevelMetadataPaths
               /\ SameUpToCase(StemOf(files[i][2]), StemOf(files[j][2])))
                  => (Kept(i) <=> Kept(j))

\* Foo-1.0 and mastodon.-py-1.5.1 are kept for their wheels, foo-2.0 is not,
\* foo-1.0.0 (the same version as 1.0) is.
C4_Witness ==
    /\ pc = "done"
    /\ wheel = W_foo
    /\ files = Entries(<<P_Foo, P_foo_20, P_foo_100>>)
    /\ Kept(1) /\ ~Kept(2) /\ Kept(3)

\* The dist-info directories with a top-level METADATA entry.
DistInfoDirs ==
    { StemOf(files[i][2]) :
        i \in { k \in DOMAIN files : files[k][2] \in TopLevelMetadataPaths } }

\* C5 as claimed: METADATA entries under two or more distinct dist-info
\* directories, matching the filename or not, make the locator fail.
C5_AnyTwoDirsAreFatal ==
    (pc = "done" /\ Cardinality(DistInfoDirs) >= 2) => result.kind # "Ok"

\* C5 as amended: two or more distinct dist-info directories that match the
\* filename make the locator fail with MultipleDistInfo; directories that do
\* not match are not counted, so one matching directory among others is Ok.
C5_TwoMatchingDirsAreFatal ==
    pc = "done" =>
        /\ Cardinality({ StemOf(files[i][2]) : i \in Matching }) >= 2
              => result.kind = "MultipleDistInfo"
        /\ (Cardinality(DistInfoDirs) >= 2 /\ Cardinality(Matching) = 1)
              => result.kind = "Ok"

\* foo-1.0 and foo-1.0.0 both match foo-1.0; bar-1.0 does not.
C5_Witness ==
    /\ pc = "done"
    /\ wheel = W_foo
    /\ files = Entries(<<P_foo, P_bar, P_foo_100>>)
    /\ result.kind = "MultipleDistInfo"

\* C10: an entry is a candidate only when the text after the first '/' of
\* its path is METADATA and the text before it ends in `.dist-info`; a file
\* list without such a path has no candidate.
C10_OnlyTopLevelMetadata ==
    pc = "done" =>
        /\ \A i \in DOMAIN files : Kept(i) => files[i][2] \in TopLevelMetadataPaths
        /\ \A i \in DOMAIN files :
              files[i][2] \in {P_vendored, P_deeper, P_no_slash, P_no_suffix,
                               P_foo_WHEEL, P_foo_RECORD} => ~Kept(i)
        /\ Len(metadatas)
              <= Cardinality({ i \in DOMAIN files : files[i][2] \in TopLevelMetadataPaths })

\* The nested directory, the deeper METADATA and WHEEL are passed over; the
\* top-level METADATA of the same list is the one candidate.
C10_Witness ==
    /\ pc = "done"
    /\ wheel = W_foo
    /\ files = Entries(<<P_vendored, P_deeper, P_foo>>)
    /\ metadatas = <<<<Payload(3), <<"f","o","o","-","1",".","0">>>>>>

\* The position of the last '-' of a stem that has one.
LastDash(stem) ==
    CHOOSE k \in 1..Len(stem) :
        stem[k] = "-" /\ \A j \in (k + 1)..Len(stem) : stem[j] # "-"

\* A malformed candidate: `{stem}.dist-info/METADATA` whose stem has no '-',
\* or whose text before the last '-' is not a valid package name, or whose
\* text after it is not a valid version.
Malformed(path) ==
    /\ TopLevelMetadata(path)
    /\ LET stem == StemOf(path)
       IN  \/ "-" \notin Range(stem)
           \/ ~ValidName(SubSeq(stem, 1, LastDash(stem) - 1))
           \/ Version_from_str(SubSeq(stem, LastDash(stem) + 1, Len(stem))) = None

\* The entry's stem, cut at its last '-', is the name and the version of the
\* filename.
MatchesAtLastDash(path, fname) ==
    /\ TopLevelMetadata(path)
    /\ "-" \in Range(StemOf(path))
    /\ NameIs(SubSeq(StemOf(path), 1, LastDash(StemOf(path)) - 1), fname.name)
    /\ VersionIs(SubSeq(StemOf(path), LastDash(StemOf(path)) + 1,
                        Len(StemOf(path))), fname.version)

MalformedPaths == { p \in AllPaths : Malformed(p) }
MatchingAtLastDashPaths ==
    [w \in WheelNames |->
        { p \in AllPaths : MatchesAtLastDash(p, WheelFilename_from_str(w)[1]) }]

MalformedEntries == { i \in DOMAIN files : files[i][2] \in MalformedPaths }

\* C11: find_dist_info never fails because of a malformed candidate.  The
\* stem is cut at its LAST '-'; an entry whose stem has no '-', an invalid
\* name or an invalid version is skipped; the result is never InvalidName or
\* InvalidVersion; a list whose only `*.dist-info/METADATA` entries are
\* malformed gives MissingDistInfo; a malformed entry next to one match
\* leaves the result Ok.
C11_MalformedIsSkipped ==
    pc = "done" =>
        /\ result.kind \in {"Ok", "MissingDistInfo", "MultipleDistInfo"}
        /\ \A i \in MalformedEntries : ~Kept(i)
        /\ \A i \in DOMAIN files :
              Kept(i) <=> files[i][2] \in MatchingAtLastDashPaths[wheel]
        /\ (\A i \in DOMAIN files :
                files[i][2] \in TopLevelMetadataPaths => i \in MalformedEntries)
              => result = MissingDistInfo
        /\ (MalformedEntries # {} /\ Cardinality(Matching) = 1)
              => \A i \in Matching : result = Ok(files[i][1], StemOf(files[i][2]))

\* A stem without '-', a version that is not one and a name that is not one,
\* and nothing else: MissingDistInfo.
C11_Witness ==
    /\ pc = "done"
    /\ wheel = W_foo
    /\ files = Entries(<<P_no_dash, P_bad_version, P_bad_name>>)
    /\ MalformedEntries = {1, 2, 3}
    /\ result = MissingDistInfo

(***************************************************************************)
(* is_metadata_entry next to find_dist_info: after the locator has run,    *)
(* is_metadata_entry is asked about each path of the same file list, with  *)
(* the same wheel filename.                                                *)
(***************************************************************************)
IsMetadataEntry ==
    /\ pc = "done"
    /\ is_metadata' =
           [i \in DOMAIN files |-> is_metadata_entry(files[i][2], filename)]
    /\ pc' = "checked"
    /\ UNCHANGED <<wheel, filename, files, metadatas, result>>
    /\ UNCHANGED <<strategyVars, pipListVars, installVars, readVars>>

NextMetadataEntry == FindDistInfo \/ IsMetadataEntry

SpecMetadataEntry == InitDistInfo /\ [][NextMetadataEntry]_vars

\* The entries is_metadata_entry said yes to.
MetadataEntries == { i \in DOMAIN is_metadata : is_metadata[i] }

\* C12: is_metadata_entry and find_dist_info agree on what a matching entry
\* is.  For every path and wheel filename is_metadata_entry is true iff the
\* filter of find_dist_info keeps the path; so find_dist_info returns Ok iff
\* exactly one path satisfies is_metadata_entry, MissingDistInfo iff none
\* does, and MultipleDistInfo iff two or more do.
C12_SameMatching ==
    pc = "checked" =>
        /\ DOMAIN is_metadata = DOMAIN files
        /\ \A i \in DOMAIN files : is_metadata[i] <=> Kept(i)
        /\ result.kind = "Ok" <=> Cardinality(MetadataEntries) = 1
        /\ result.kind = "MissingDistInfo" <=> Cardinality(MetadataEntries) = 0
        /\ result.kind = "MultipleDistInfo" <=> Cardinality(MetadataEntries) >= 2

\* foo-2.0 is no entry of foo-1.0 for either function, Foo-1.0 and foo-1.0.0
\* are for both, and the locator reports the two.
C12_Witness ==
    /\ pc = "checked"
    /\ wheel = W_foo
    /\ files = Entries(<<P_foo_20, P_Foo, P_foo_100>>)
    /\ is_metadata = <<FALSE, TRUE, TRUE>>
    /\ Kept(2) /\ Kept(3) /\ ~Kept(1)
    /\ result.kind = "MultipleDistInfo"

(***************************************************************************)
(* uv-resolver/src/resolution_mode.rs                                      *)
(***************************************************************************)
ResolutionMode == {"Highest", "Lowest", "LowestDirect"}

\* A requirement, by the field from_mode reads: its name.
RequirementNames == {"numpy", "anyio"}
Requirements == { [name |-> n] : n \in RequirementNames }
RequirementLists == UNION { [1..n -> Requirements] : n \in 0..MaxRequirements }

\* An editable of the manifest: (editable, metadata), the metadata with the
\* editable's own name and its requires_dist.
Editables ==
    { <<"editable", [name |-> "poetry-editable", requires_dist |-> rd]>> :
        rd \in RequirementLists }

Manifests ==
    { [requirements |-> rs, editables |-> es] :
        rs \in RequirementLists,
        es \in UNION { [1..n -> Editables] : n \in 0..MaxEditables } }

\* editables.iter().flat_map(|(_editable, metadata)| metadata.requires_dist.iter())
RECURSIVE FlatMapRequiresDist(_)
FlatMapRequiresDist(editables) ==
    IF Len(editables) = 0 THEN <<>>
    ELSE Head(editables)[2].requires_dist \o FlatMapRequiresDist(Tail(editables))

\* .map(|requirement| requirement.name.clone()).collect::<FxHashSet<_>>()
CollectNames(requirements) ==
    { requirements[i].name : i \in 1..Len(requirements) }

\* from_mode taking the manifest's requirements alone as direct.
from_mode_requirements_only(m, man) ==
    IF m = "Highest" THEN [kind |-> "Highest"]
    ELSE IF m = "Lowest" THEN [kind |-> "Lowest"]
    ELSE [kind |-> "LowestDirect", direct |-> CollectNames(man.requirements)]

\* ResolutionStrategy::from_mode(mode, manifest)
from_mode(m, man) ==
    IF m = "Highest" THEN [kind |-> "Highest"]
    ELSE IF m = "Lowest" THEN [kind |-> "Lowest"]
    ELSE [kind |-> "LowestDirect",
          direct |-> CollectNames(man.requirements
                                  \o FlatMapRequiresDist(man.editables))]

InitStrategy ==
    /\ pc = "ready"
    /\ mode \in ResolutionMode
    /\ manifest \in Manifests
    /\ strategy = [kind |-> "none"]
    /\ IdleDistInfo /\ IdlePipList /\ IdleInstall /\ IdleRead

FromMode ==
    /\ pc = "ready"
    /\ strategy' = from_mode(mode, manifest)
    /\ pc' = "done"
    /\ UNCHANGED <<mode, manifest>>
    /\ UNCHANGED <<distInfoVars, pipListVars, installVars, readVars>>

NextStrategy == FromMode

SpecStrategy == InitStrategy /\ [][NextStrategy]_vars

\* The name is the name of a requirement of the manifest, or of a
\* requires_dist entry of one of its editables.
IsDirectName(n) ==
    \/ \E i \in DOMAIN manifest.requirements : manifest.requirements[i].name = n
    \/ \E e \in DOMAIN manifest.editables :
          \E j \in DOMAIN manifest.editables[e][2].requires_dist :
              manifest.editables[e][2].requires_dist[j].name = n

\* C7: for mode LowestDirect the direct-dependency set holds exactly the
\* names of the manifest's requirements and of the requires_dist entries of
\* its editables; for Highest and Lowest the strategy is the variant of the
\* same name, whatever the manifest.
C7_FromMode ==
    pc = "done" =>
        /\ mode = "LowestDirect" =>
              /\ strategy.kind = "LowestDirect"
              /\ \A n \in strategy.direct : IsDirectName(n)
              /\ \A n \in RequirementNames \cup {"poetry-editable"} :
                    IsDirectName(n) => n \in strategy.direct
        /\ mode = "Highest" => strategy = [kind |-> "Highest"]
        /\ mode = "Lowest" => strategy = [kind |-> "Lowest"]

\* An editable that requires anyio, next to the requirement numpy: both are
\* direct, the editable's own name is not.
C7_Witness ==
    /\ pc = "done"
    /\ mode = "LowestDirect"
    /\ manifest = [requirements |-> <<[name |-> "numpy"]>>,
                   editables |-> << <<"editable",
                                      [name |-> "poetry-editable",
                                       requires_dist |-> <<[name |-> "anyio"]>>]>> >>]
    /\ strategy = [kind |-> "LowestDirect", direct |-> {"numpy", "anyio"}]

(***************************************************************************)
(* `uv pip list`, as the runs recorded in crates/uv/tests/pip_list.rs show *)
(* it: the command reads the packages installed in the virtual             *)
(* environment, drops those the arguments filter out, and prints a table   *)
(* of the rest: a header, a divider and one row per package, with an       *)
(* `Editable project location` column when a listed package is editable.   *)
(* It prints nothing at all when no package is left.  What follows is      *)
(* built from the recorded runs and reproduces each of them                *)
(* (RecordedRuns, RecordedRunsReproduced).                                 *)
(***************************************************************************)
NoLocation == ""
PoetryLocation == "[WORKSPACE_DIR]/scripts/editable-installs/poetry_editable"

\* The packages the tests install, in the order the table lists them.
MarkupSafe == [name |-> "markupsafe", version |-> "2.1.3", location |-> NoLocation]
Numpy == [name |-> "numpy", version |-> "1.26.2", location |-> NoLocation]
PoetryEditable ==
    [name |-> "poetry-editable", version |-> "0.1.0", location |-> PoetryLocation]
PackageOrder == <<MarkupSafe, Numpy, PoetryEditable>>
Packages == Range(PackageOrder)

IsEditable(p) == p.location # NoLocation

\* The names `--exclude` may be given: every package's, and one of no package.
ExcludableNames == { p.name : p \in Packages } \cup {"black"}

PipListArgs ==
    [editable : BOOLEAN, exclude_editable : BOOLEAN, exclude : SUBSET ExcludableNames]

NoArgs == [editable |-> FALSE, exclude_editable |-> FALSE, exclude |-> {}]

\* The packages left after --editable, --exclude-editable and --exclude.
Listed(env, a) ==
    { p \in env :
        /\ a.editable => IsEditable(p)
        /\ a.exclude_editable => ~IsEditable(p)
        /\ p.name \notin a.exclude }

\* The rows of the packages in `listed`, in table order.
RECURSIVE Rows(_, _, _)
Rows(order, listed, withLocation) ==
    IF Len(order) = 0 THEN <<>>
    ELSE (IF Head(order) \in listed
          THEN IF withLocation
               THEN << <<Head(order).name, Head(order).version, Head(order).location>> >>
               ELSE << <<Head(order).name, Head(order).version>> >>
          ELSE <<>>)
         \o Rows(Tail(order), listed, withLocation)

\* The table header printed although no package is listed.
Table_header_always(listed) ==
    LET withLocation == \E p \in listed : IsEditable(p)
    IN  (IF withLocation
         THEN << <<"Package", "Version", "Editable project location">>,
                 <<"-", "-", "-">> >>
         ELSE << <<"Package", "Version">>, <<"-", "-">> >>)
        \o Rows(PackageOrder, listed, withLocation)

\* stdout: nothing for no package; else header, divider, rows.
Table(listed) ==
    IF listed = {} THEN <<>>
    ELSE LET withLocation == \E p \in listed : IsEditable(p)
         IN  (IF withLocation
              THEN << <<"Package", "Version", "Editable project location">>,
                      <<"-", "-", "-">> >>
              ELSE << <<"Package", "Version">>, <<"-", "-">> >>)
             \o Rows(PackageOrder, listed, withLocation)

\* --editable taking precedence over --exclude-editable.
pip_list_editable_wins(env, a) ==
    [stdout |-> Table(Listed(env, IF a.editable
                                  THEN [a EXCEPT !.exclude_editable = FALSE]
                                  ELSE a)),
     exit_code |-> 0]

\* `uv pip list`: what it prints and its exit code.
pip_list(env, a) == [stdout |-> Table(Listed(env, a)), exit_code |-> 0]

\* The runs the tests record: environment, arguments, stdout.
RecordedRuns ==
    { \* empty
      <<{}, NoArgs, <<>>>>,
      \* single_no_editable
      <<{MarkupSafe}, NoArgs,
        << <<"Package", "Version">>, <<"-", "-">>, <<"markupsafe", "2.1.3">> >> >>,
      \* editable
      <<{Numpy, PoetryEditable}, NoArgs,
        << <<"Package", "Version", "Editable project location">>, <<"-", "-", "-">>,
           <<"numpy", "1.26.2", NoLocation>>,
           <<"poetry-editable", "0.1.0", PoetryLocation>> >> >>,
      \* editable_only: --editable
      <<{Numpy, PoetryEditable}, [NoArgs EXCEPT !.editable = TRUE],
        << <<"Package", "Version", "Editable project location">>, <<"-", "-", "-">>,
           <<"poetry-editable", "0.1.0", PoetryLocation>> >> >>,
      \* editable_only: --exclude-editable
      <<{Numpy, PoetryEditable}, [NoArgs EXCEPT !.exclude_editable = TRUE],
        << <<"Package", "Version">>, <<"-", "-">>, <<"numpy", "1.26.2">> >> >>,
      \* editable_only: --editable --exclude-editable
      <<{Numpy, PoetryEditable},
        [NoArgs EXCEPT !.editable = TRUE, !.exclude_editable = TRUE], <<>>>>,
      \* exclude: --exclude numpy
      <<{Numpy, PoetryEditable}, [NoArgs EXCEPT !.exclude = {"numpy"}],
        << <<"Package", "Version", "Editable project location">>, <<"-", "-", "-">>,
           <<"poetry-editable", "0.1.0", PoetryLocation>> >> >>,
      \* exclude: --exclude poetry-editable
      <<{Numpy, PoetryEditable}, [NoArgs EXCEPT !.exclude = {"poetry-editable"}],
        << <<"Package", "Version">>, <<"-", "-">>, <<"numpy", "1.26.2">> >> >>,
      \* exclude: --exclude numpy --exclude poetry-editable
      <<{Numpy, PoetryEditable},
        [NoArgs EXCEPT !.exclude = {"numpy", "poetry-editable"}], <<>>>> }

InitPipList ==
    /\ pc = "ready"
    /\ installed \in SUBSET Packages
    /\ args \in PipListArgs
    /\ stdout = <<>>
    /\ exit_code = -1
    /\ IdleDistInfo /\ IdleStrategy /\ IdleInstall /\ IdleRead

PipList ==
    /\ pc = "ready"
    /\ stdout' = pip_list(installed, args).stdout
    /\ exit_code' = pip_list(installed, args).exit_code
    /\ pc' = "done"
    /\ UNCHANGED <<installed, args>>
    /\ UNCHANGED <<distInfoVars, strategyVars, installVars, readVars>>

NextPipList == PipList

SpecPipList == InitPipList /\ [][NextPipList]_vars

\* The names in the rows of the printed table (below header and divider).
ListedNames == { stdout[k][1] : k \in 3..Len(stdout) }

\* Every run the tests record prints what the test expects, and exits 0.
RecordedRunsReproduced ==
    pc = "done" =>
        \A run \in RecordedRuns :
            (installed = run[1] /\ args = run[2]) =>
                (stdout = run[3] /\ exit_code = 0)

EntryPaths == <<"pkg/__init__.py", "pkg/a.py", "pkg/b.py", "pkg/c.py">>
RecordPath == "pkg-1.0.dist-info/RECORD"
InstallerPath == "pkg-1.0.dist-info/INSTALLER"
ExistingPath == "other/existing.py"

\* File contents: short sequences of bytes, a byte being 0 or 1.
Contents == {<<0>>, <<1, 0>>, <<1, 1>>}

\* Error::RecordFile: "RECORD file doesn't match wheel contents".
RecordFile == "RecordFile"

\* The digest of a file's bytes: a number that no other content has.
RECURSIVE Digest(_)
Digest(bytes) ==
    IF Len(bytes) = 0 THEN 1
    ELSE 2 * Digest(SubSeq(bytes, 1, Len(bytes) - 1)) + bytes[Len(bytes)]

\* How a RECORD line describes its file: hash and size, one of them, neither.
RecordKinds == {"hash+size", "hash", "size", "empty"}

\* The RECORD line of a file: (path, hash | empty, size | empty).
RecordEntry(path, bytes, kind) ==
    [path |-> path,
     hash |-> IF kind \in {"hash+size", "hash"} THEN Some(Digest(bytes)) ELSE None,
     size |-> IF kind \in {"hash+size", "size"} THEN Some(Len(bytes)) ELSE None]

\* The bytes with the j-th one changed.
Corrupt(bytes, j) == [bytes EXCEPT ![j] = 1 - bytes[j]]

\* The RECORD line of a path.
RecordOf(rec, path) == rec[CHOOSE k \in DOMAIN rec : rec[k].path = path]

\* The file's bytes agree with its RECORD line: the hash when the line has
\* one, the size when the line has one.
Verified(line, bytes) ==
    /\ line.hash # None => line.hash[1] = Digest(bytes)
    /\ line.size # None => line.size[1] = Len(bytes)

\* Rollback deleting the files written before the failing one only.
RolledBack_but_last(onDisk, written) ==
    onDisk \ { written[k] : k \in 1..(Len(written) - 1) }

\* Rollback: the files written during this install are deleted.
RolledBack(onDisk, written) == onDisk \ Range(written)

InitInstall ==
    /\ pc = "placing"
    /\ \E n \in 1..MaxEntries :
         \E contents \in [1..n -> Contents], kinds \in [1..n -> RecordKinds] :
            \* the wheel as built: its RECORD agrees with its files
            /\ record = [k \in 1..n |->
                            RecordEntry(EntryPaths[k], contents[k], kinds[k])]
                        \o <<[path |-> RecordPath, hash |-> None, size |-> None]>>
            \* the wheel as received: intact, or with one byte of one file changed
            /\ \/ /\ corrupted = 0
                  /\ archive = [k \in 1..n |->
                                   [path |-> EntryPaths[k], bytes |-> contents[k]]]
               \/ \E i \in 1..n : \E j \in 1..Len(contents[i]) :
                  /\ corrupted = i
                  /\ archive = [k \in 1..n |->
                                   [path |-> EntryPaths[k],
                                    bytes |-> IF k = i THEN Corrupt(contents[k], j)
                                              ELSE contents[k]]]
    /\ cursor = 1
    /\ disk = {ExistingPath}
    /\ report = <<>>
    /\ outcome = "none"
    /\ IdleDistInfo /\ IdleStrategy /\ IdlePipList /\ IdleRead

\* The linker materialises the next entry, hashing it on the way, and
\* compares it with its RECORD line.
PlaceEntry ==
    /\ pc = "placing"
    /\ cursor <= Len(archive)
    /\ disk' = disk \cup {archive[cursor].path}
    /\ report' = Append(report, archive[cursor].path)
    /\ IF Verified(RecordOf(record, archive[cursor].path), archive[cursor].bytes)
       THEN /\ cursor' = cursor + 1
            /\ UNCHANGED <<pc, outcome>>
       ELSE /\ pc' = "rollback"
            /\ outcome' = RecordFile
            /\ UNCHANGED cursor
    /\ UNCHANGED <<archive, record, corrupted>>
    /\ UNCHANGED <<distInfoVars, strategyVars, pipListVars, readVars>>

\* The failure deletes what the install report lists, and install returns.
Rollback ==
    /\ pc = "rollback"
    /\ disk' = RolledBack(disk, report)
    /\ pc' = "returned"
    /\ UNCHANGED <<archive, record, corrupted, cursor, report, outcome>>
    /\ UNCHANGED <<distInfoVars, strategyVars, pipListVars, readVars>>

\* Every entry is placed: RECORD and INSTALLER are written, install returns.
FinishInstall ==
    /\ pc = "placing"
    /\ cursor > Len(archive)
    /\ disk' = disk \cup {RecordPath, InstallerPath}
    /\ report' = report \o <<RecordPath, InstallerPath>>
    /\ outcome' = "Ok"
    /\ pc' = "returned"
    /\ UNCHANGED <<archive, record, corrupted, cursor>>
    /\ UNCHANGED <<distInfoVars, strategyVars, pipListVars, readVars>>

NextInstall == PlaceEntry \/ Rollback \/ FinishInstall

SpecInstall == InitInstall /\ [][NextInstall]_vars

ZipNames == {P_foo, P_Foo, P_foo_WHEEL, P_Mastodon}
ZipContents == {<<0>>, <<1, 0>>}
ZipFaults == {"none", "open", "read"}
ZipEntries == [name : ZipNames, bytes : ZipContents, fault : ZipFaults]

ZipArchives ==
    { z \in UNION { [1..n -> ZipEntries] : n \in 0..MaxFiles } :
        \A i, j \in DOMAIN z : z[i].name = z[j].name => i = j }

\* archive.file_names().map(|name| (name, name))
file_names(z) == [i \in DOMAIN z |-> <<z[i].name, z[i].name>>]

\* format!("{dist_info_prefix}.dist-info/METADATA"), lowercasing the prefix.
MetadataPath_lowercased(dist_info_prefix) ==
    [k \in 1..Len(dist_info_prefix) |-> to_ascii_lowercase(dist_info_prefix[k])]
        \o DistInfoSuffix \o <<"/">> \o MetadataFile

\* format!("{dist_info_prefix}.dist-info/METADATA")
MetadataPath(dist_info_prefix) ==
    dist_info_prefix \o DistInfoSuffix \o <<"/">> \o MetadataFile

\* ZipArchive::by_name: Some(entry), or None for a ZipError (no entry of
\* that name, or an entry that cannot be opened).
by_name(z, name) ==
    IF \E i \in DOMAIN z : z[i].name = name /\ z[i].fault # "open"
    THEN Some(z[CHOOSE i \in DOMAIN z : z[i].name = name])
    ELSE None

\* Read::read_to_end: Some(every byte of the entry), or None for an io::Error.
read_to_end(file) == IF file.fault = "read" THEN None ELSE Some(file.bytes)

\* The values read_dist_info returns.
OkBuffer(buffer) ==
    [kind |-> "Ok", bytes |-> buffer, msg |-> <<>>, filename |-> NoFilename]
\* `?` on the Err of find_dist_info: the same error.
Propagated(err) ==
    [kind |-> err.kind, bytes |-> <<>>, msg |-> err.msg, filename |-> NoFilename]
\* Error::Zip(filename.to_string(), err): the error names the wheel filename.
\* The text of the filename is held as the WheelFilename it is printed from.
Zip(fname) == [kind |-> "Zip", bytes |-> <<>>, msg |-> <<>>, filename |-> fname]
\* Error::Io(err)
Io == [kind |-> "Io", bytes |-> <<>>, msg |-> <<>>, filename |-> NoFilename]

InitReadDistInfo ==
    /\ pc = "ready"
    /\ wheel \in WheelNames
    /\ filename = WheelFilename_from_str(wheel)[1]
    /\ zip \in ZipArchives
    /\ files = <<>>
    /\ metadatas = <<>>
    /\ result = NoResult
    /\ is_metadata = <<>>
    /\ opened = <<>>
    /\ returned = NotReturned
    /\ IdleStrategy /\ IdlePipList /\ IdleInstall

\* let dist_info_prefix = find_dist_info(filename, file_names)?.1;
Locate ==
    /\ pc = "ready"
    /\ files' = file_names(zip)
    /\ metadatas' = Metadatas(filename, file_names(zip))
    /\ result' = find_dist_info(filename, file_names(zip))
    /\ IF result'.kind = "Ok"
       THEN pc' = "located" /\ UNCHANGED returned
       ELSE pc' = "returned" /\ returned' = Propagated(result')
    /\ UNCHANGED <<wheel, filename, is_metadata, zip, opened>>
    /\ UNCHANGED <<strategyVars, pipListVars, installVars>>

\* let mut file = archive.by_name(..).map_err(|err| Error::Zip(..))?;
ByName ==
    /\ pc = "located"
    /\ opened' = Append(opened, MetadataPath(result.prefix))
    /\ IF by_name(zip, MetadataPath(result.prefix)) # None
       THEN pc' = "opened" /\ UNCHANGED returned
       ELSE pc' = "returned" /\ returned' = Zip(filename)
    /\ UNCHANGED <<distInfoVars, zip>>
    /\ UNCHANGED <<strategyVars, pipListVars, installVars>>

\* file.read_to_end(&mut buffer)?; Ok(buffer)
ReadToEnd ==
    /\ pc = "opened"
    /\ LET file == by_name(zip, opened[Len(opened)])[1]
           buffer == read_to_end(file)
       IN  returned' = IF buffer = None THEN Io ELSE OkBuffer(buffer[1])
    /\ pc' = "returned"
    /\ UNCHANGED <<distInfoVars, zip, opened>>
    /\ UNCHANGED <<strategyVars, pipListVars, installVars>>

NextReadDistInfo == Locate \/ ByName \/ ReadToEnd

SpecReadDistInfo == InitReadDistInfo /\ [][NextReadDistInfo]_vars

\* The entries of the archive that match the wheel filename.
MatchingInZip == { i \in DOMAIN zip : zip[i].name \in MatchingPaths[wheel] }

\* C13: when locating the dist-info among the archive's file names fails,
\* read_dist_info returns that error (MissingDistInfo, MultipleDistInfo) and
\* no entry of the archive is opened; when it succeeds with prefix P, the
\* one entry opened is `P.dist-info/METADATA`, the bytes returned are all the
\* bytes of that entry, and a failure to open it is returned as Error::Zip
\* with the wheel filename.
C13_ReadDistInfo ==
    /\ (opened # <<>>) => (result.kind = "Ok" /\ Cardinality(MatchingInZip) = 1)
    /\ pc = "returned" =>
          /\ MatchingInZip = {} =>
                returned = Propagated(MissingDistInfo) /\ opened = <<>>
          /\ Cardinality(MatchingInZip) > 1 =>
                /\ returned.kind = "MultipleDistInfo"
                /\ returned = Propagated(result)
                /\ opened = <<>>
          /\ \A i \in MatchingInZip :
                Cardinality(MatchingInZip) = 1 =>
                    /\ opened = <<zip[i].name>>
                    /\ zip[i].name = MetadataPath(result.prefix)
                    /\ zip[i].fault = "none" => returned = OkBuffer(zip[i].bytes)
                    /\ zip[i].fault = "open" => returned = Zip(filename)
                    /\ returned.kind = "Ok" => returned.bytes = zip[i].bytes

\* Foo-1.0.dist-info/METADATA is the one entry opened, and its two bytes are
\* returned, although the WHEEL entry before it could not be opened.
C13_Witness ==
    /\ pc = "returned"
    /\ wheel = W_foo
    /\ zip = <<[name |-> P_foo_WHEEL, bytes |-> <<0>>, fault |-> "open"],
               [name |-> P_Foo, bytes |-> <<1, 0>>, fault |-> "none"]>>
    /\ opened = <<P_Foo>>
    /\ returned = OkBuffer(<<1, 0>>)

=============================================================================
